---- MODULE Spec2Model ----
(***************************************************************************)
(* A model of the federated service-discovery DNS resolver: the registry   *)
(* entity, the label harvester, the peer exchange (collect / dispatch),    *)
(* the HTTP registry API and the DNS resolution cascade.                   *)
(*                                                                         *)
(* Strings are sequences of tokens.  A token is a TLA+ string standing for *)
(* a piece of text that the program never splits: "." "," " " ":" are the  *)
(* separator characters, "public" and "private" are the two TLD literals,  *)
(* "http://" and "https://" are the URL schemes, a token of DigitTokens is *)
(* a run of decimal digits, and every other token is a run of ordinary     *)
(* name characters that contains none of the former.                       *)
(***************************************************************************)
EXTENDS Integers, Sequences, FiniteSets, TLC

\* ---------------------------------------------------------------- bounds
\* Longest DNS query name, counted in labels.
MaxLabels == 2
\* Longest peer list the HTTP API is driven to (self-registration appends).
MaxPeers == 3

\* The longest label value the parser is given, in tokens.
MaxValueLen == 4

\* ------------------------------------------------------------- constants
PUBLIC_SERVICE_TLD == "public"
PRIVATE_SERVICE_TLD == "private"
DEFAULT_REGISTRY_LISTEN == <<"0", ".", "0", ".", "0", ".", "0", ":", "3000">>

DigitTokens == {"0", "8", "80", "3000"}
SchemeTokens == {"http://", "https://"}
WhitespaceTokens == {" ", "\t"}

\* ------------------------------------------------------- string helpers
EndsWith(s, suffix) ==
    /\ Len(s) >= Len(suffix)
    /\ SubSeq(s, Len(s) - Len(suffix) + 1, Len(s)) = suffix

StartsWith(s, prefix) ==
    /\ Len(s) >= Len(prefix)
    /\ SubSeq(s, 1, Len(prefix)) = prefix

DropLast(s, k) == SubSeq(s, 1, Len(s) - k)

DropFirst(s, k) == SubSeq(s, k + 1, Len(s))

\* str::trim_end_matches: removes the pattern from the end repeatedly.
RECURSIVE TrimEndMatches(_, _)
TrimEndMatches(s, pat) ==
    IF EndsWith(s, pat) THEN TrimEndMatches(DropLast(s, Len(pat)), pat) ELSE s

Range(s) == {s[i] : i \in 1..Len(s)}

\* ------------------------------------------------------ Option / bodies
None == [some |-> FALSE, val |-> <<>>]

Some(v) == [some |-> TRUE, val |-> <<v>>]

Unwrap(o) == o.val[1]

\* Option::or
OrElse(a, b) == IF a.some THEN a ELSE b

\* An HTTP body: a JSON array of strings, or any other text.
JsonArray(items) == [kind |-> "json", items |-> items, text |-> <<>>]

Text(t) == [kind |-> "text", items |-> <<>>, text |-> <<t>>]

RECURSIVE SetToSeq(_)
SetToSeq(S) ==
    IF S = {} THEN <<>>
    ELSE LET x == CHOOSE y \in S : TRUE IN <<x>> \o SetToSeq(S \ {x})

\* serde_json::to_string of a HashSet<String>: the elements, in some order.
ToJson(S) == JsonArray(SetToSeq(S))

\* serde_json::from_str::<HashSet<String>>: only an array of strings decodes.
FromJson(body) ==
    IF body.kind = "json" THEN Some(Range(body.items)) ELSE None

\* ------------------------------------------------------------- registry
\* Url::parse, on the strings scheme host [":" port].
IsHostToken(t) ==
    t \notin SchemeTokens \cup WhitespaceTokens \cup {":", ",", "/", "(", ")"}

ParseUrl(s) ==
    IF Len(s) >= 1 /\ s[1] \in SchemeTokens
    THEN LET rest == DropFirst(s, 1)
             hasPort == /\ Len(rest) >= 2
                        /\ rest[Len(rest) - 1] = ":"
                        /\ rest[Len(rest)] \in DigitTokens
             host == IF hasPort THEN DropLast(rest, 2) ELSE rest
             port == IF hasPort THEN rest[Len(rest)] ELSE "80"
         IN IF Len(host) >= 1 /\ \A i \in 1..Len(host) : IsHostToken(host[i])
            THEN Some([scheme |-> s[1], host |-> host, port |-> port])
            ELSE None
    ELSE None

\* Name::from_str: labels separated by dots, no empty label but the root.
ParseName(s) ==
    IF /\ \A i \in 1..Len(s) : IsHostToken(s[i])
       /\ \A i \in 1..Len(s) : s[i] = "." => (i > 1 /\ s[i - 1] # ".")
    THEN Some(s)
    ELSE None

NewRegistry(hostname, url) ==
    [hostname |-> hostname, url |-> url,
     public_services |-> {}, private_services |-> {}]

\* impl FromStr for Registry
RegistryFromStr(s) ==
    LET url == ParseUrl(s) IN
    IF ~url.some THEN None
    ELSE LET hostname == ParseName(Unwrap(url).host) IN
         IF ~hostname.some THEN None
         ELSE Some(NewRegistry(Unwrap(hostname), Unwrap(url)))

has_public_service(registry, service) == service \in registry.public_services

has_private_service(registry, service) == service \in registry.private_services

add_public_service(registry, service) ==
    [registry EXCEPT !.public_services = @ \cup {service}]

add_private_service(registry, service) ==
    [registry EXCEPT !.private_services = @ \cup {service}]

clear_public_services(registry) == [registry EXCEPT !.public_services = {}]

clear_private_services(registry) == [registry EXCEPT !.private_services = {}]

\* A variant that writes the set into the private services as well.
flush_public_services_both(registry, services) ==
    [registry EXCEPT !.public_services = services,
                     !.private_services = services]

\* A variant that adds the pushed services to the stored ones.
flush_public_services_merging(registry, services) ==
    [registry EXCEPT !.public_services = @ \cup services]


flush_public_services(registry, services) ==
    [registry EXCEPT !.public_services = services]

\* ---------------------------------------------------------- label parser
\* CADDY_LABEL_REGEX  ^caddy$|^caddy_\d+$
CADDY_LABEL_REGEX(label) ==
    \/ label = <<"caddy">>
    \/ /\ Len(label) >= 3
       /\ label[1] = "caddy"
       /\ label[2] = "_"
       /\ \A i \in 3..Len(label) : label[i] \in DigitTokens

\* SNIPPET_VALUE_REGEX  ^\(.*\)$
SNIPPET_VALUE_REGEX(value) ==
    Len(value) >= 2 /\ value[1] = "(" /\ value[Len(value)] = ")"

\* Docker::get_caddy_values: the values of the labels that pass both filters.
get_caddy_values(container) ==
    {l.value : l \in {m \in container.labels :
        CADDY_LABEL_REGEX(m.label) /\ ~SNIPPET_VALUE_REGEX(m.value)}}

\* str::split on a one-character separator.
RECURSIVE Split(_, _)
Split(s, sep) ==
    IF \E i \in 1..Len(s) : s[i] = sep
    THEN LET i == CHOOSE j \in 1..Len(s) :
                      s[j] = sep /\ \A k \in 1..(j - 1) : s[k] # sep
         IN <<SubSeq(s, 1, i - 1)>> \o Split(DropFirst(s, i), sep)
    ELSE <<s>>

\* str::trim: removes leading and trailing whitespace.
RECURSIVE Trim(_)
Trim(s) ==
    IF Len(s) >= 1 /\ s[1] \in WhitespaceTokens THEN Trim(DropFirst(s, 1))
    ELSE IF Len(s) >= 1 /\ s[Len(s)] \in WhitespaceTokens THEN Trim(DropLast(s, 1))
    ELSE s

RECURSIVE TrimNonEmpty(_)
TrimNonEmpty(pieces) ==
    IF pieces = <<>> THEN <<>>
    ELSE (IF Trim(Head(pieces)) # <<>> THEN <<Trim(Head(pieces))>> ELSE <<>>)
         \o TrimNonEmpty(Tail(pieces))

RECURSIVE ParseSegments(_)
ParseSegments(segments) ==
    IF segments = <<>> THEN <<>>
    ELSE TrimNonEmpty(Split(Trim(Head(segments)), " "))
         \o ParseSegments(Tail(segments))

\* Docker::parse_address
parse_address(address) == ParseSegments(Split(address, ","))

\* The end of a token once an optional port  (?::\d+)?$  is taken off.
StripPort(address) ==
    LET n == Len(address)
        digits == {k \in 1..n : \A i \in k..n : address[i] \in DigitTokens}
        first == IF digits = {} THEN n + 1
                 ELSE CHOOSE k \in digits : \A j \in digits : k <= j
    IN IF first <= n /\ first > 1 /\ address[first - 1] = ":"
       THEN SubSeq(address, 1, first - 2)
       ELSE address

\* A variant that leaves the scheme in the captured name.
capture_service_with_scheme(address, tld) ==
    LET t == StripPort(address) IN
    IF EndsWith(t, <<".", tld>>) THEN Some(DropLast(t, 2)) ELSE None

\* Docker::capture_service with the regex  (?:https?://)?(.*)\.<tld>(?::\d+)?$
capture_service(address, tld) ==
    LET t == StripPort(address) IN
    IF EndsWith(t, <<".", tld>>)
    THEN LET c == DropLast(t, 2) IN
         Some(IF Len(c) >= 1 /\ c[1] \in SchemeTokens THEN DropFirst(c, 1) ELSE c)
    ELSE None

\* The closure process_address of Docker::flush_registry_services.
process_address(registry, address) ==
    IF capture_service(address, PUBLIC_SERVICE_TLD).some
    THEN add_public_service(registry,
             Unwrap(capture_service(address, PUBLIC_SERVICE_TLD)))
    ELSE IF capture_service(address, PRIVATE_SERVICE_TLD).some
    THEN add_private_service(registry,
             Unwrap(capture_service(address, PRIVATE_SERVICE_TLD)))
    ELSE registry

RECURSIVE ProcessAddresses(_, _)
ProcessAddresses(registry, addresses) ==
    IF addresses = <<>> THEN registry
    ELSE ProcessAddresses(process_address(registry, Head(addresses)),
                          Tail(addresses))

RECURSIVE ProcessValues(_, _)
ProcessValues(registry, values) ==
    IF values = {} THEN registry
    ELSE LET v == CHOOSE x \in values : TRUE IN
         ProcessValues(ProcessAddresses(registry, parse_address(v)),
                       values \ {v})

\* The closure process_container of Docker::flush_registry_services.
process_container(registry, container) ==
    ProcessValues(registry, get_caddy_values(container))

RECURSIVE ProcessContainers(_, _)
ProcessContainers(registry, containers) ==
    IF containers = <<>> THEN registry
    ELSE ProcessContainers(process_container(registry, Head(containers)),
                           Tail(containers))

\* -------------------------------------------------------- HTTP registry API
\* Name::to_string: a parsed name prints as the text it was parsed from.
NameToString(hostname) == hostname

\* registries.iter().find(|registry| registry.hostname().to_string() == h):
\* the index of the first peer with that hostname, 0 when there is none.
FindRegistry(regs, registry_hostname) ==
    LET hits == {i \in 1..Len(regs) :
                    NameToString(regs[i].hostname) = registry_hostname}
    IN IF hits = {} THEN 0 ELSE CHOOSE i \in hits : \A j \in hits : i <= j

\* GET /api/self/services
get_self_services(registry) == ToJson(registry.public_services)

\* GET /api/{registry_hostname}/services
get_registry_services(regs, registry_hostname) ==
    LET i == FindRegistry(regs, registry_hostname) IN
    IF i # 0 THEN ToJson(regs[i].public_services) ELSE Text("null")

\* A variant that empties the peer's set when the body does not decode.
put_registry_services_clearing(regs, registry_hostname, services) ==
    LET i == FindRegistry(regs, registry_hostname) IN
    IF i # 0
    THEN IF FromJson(services).some
         THEN [registries |->
                  [regs EXCEPT ![i] =
                      flush_public_services(@, Unwrap(FromJson(services)))],
               reply |-> Text("Success")]
         ELSE [registries |-> [regs EXCEPT ![i] = flush_public_services(@, {})],
               reply |-> Text("Invalid services")]
    ELSE IF RegistryFromStr(registry_hostname).some
         THEN [registries |->
                  Append(regs, Unwrap(RegistryFromStr(registry_hostname))),
               reply |-> Text("Success")]
         ELSE [registries |-> regs, reply |-> Text("Invalid registry")]

\* A variant whose self-registration stores the decoded body.
put_registry_services_storing(regs, registry_hostname, services) ==
    LET i == FindRegistry(regs, registry_hostname) IN
    IF i # 0
    THEN IF FromJson(services).some
         THEN [registries |->
                  [regs EXCEPT ![i] =
                      [@ EXCEPT !.public_services = Unwrap(FromJson(services))]],
               reply |-> Text("Success")]
         ELSE [registries |-> regs, reply |-> Text("Invalid services")]
    ELSE IF RegistryFromStr(registry_hostname).some
         THEN [registries |->
                  Append(regs,
                      [Unwrap(RegistryFromStr(registry_hostname)) EXCEPT
                          !.public_services =
                              IF FromJson(services).some
                              THEN Unwrap(FromJson(services)) ELSE {}]),
               reply |-> Text("Success")]
         ELSE [registries |-> regs, reply |-> Text("Invalid registry")]

\* PUT /api/{registry_hostname}/services: the new peer list and the reply.
put_registry_services(regs, registry_hostname, services) ==
    LET i == FindRegistry(regs, registry_hostname) IN
    IF i # 0
    THEN IF FromJson(services).some
         THEN [registries |->
                  [regs EXCEPT ![i] =
                      flush_public_services(@, Unwrap(FromJson(services)))],
               reply |-> Text("Success")]
         ELSE [registries |-> regs, reply |-> Text("Invalid services")]
    ELSE IF RegistryFromStr(registry_hostname).some
         THEN [registries |->
                  Append(regs, Unwrap(RegistryFromStr(registry_hostname))),
               reply |-> Text("Success")]
         ELSE [registries |-> regs, reply |-> Text("Invalid registry")]

\* A variant that pushes the private services too.
DispatchBodyAll(registry) ==
    ToJson(registry.public_services \cup registry.private_services)

\* The JSON body dispatch_registry_services sends to every peer.
DispatchBody(registry) == ToJson(registry.public_services)

\* ------------------------------------------------------------ DNS (pure)

\* A variant that strips the public suffix only.
ServiceKeyPublicOnly(name) ==
    TrimEndMatches(TrimEndMatches(name, <<".">>), <<".", PUBLIC_SERVICE_TLD>>)

\* The service key handle_request extracts from the query name.
ServiceKey(name) ==
    TrimEndMatches(
        TrimEndMatches(TrimEndMatches(name, <<".">>),
                       <<".", PUBLIC_SERVICE_TLD>>),
        <<".", PRIVATE_SERVICE_TLD>>)

\* find_map over the addresses lookup_host returned: the first IPv4.
FirstV4(addrs) ==
    LET hits == {i \in 1..Len(addrs) : addrs[i].v4} IN
    IF hits = {} THEN None
    ELSE Some(addrs[CHOOSE i \in hits : \A j \in hits : i <= j].ip)

\* ------------------------------------------------------------------ state
VARIABLES
    self_registry,  \* node -> its own Registry (behind selfLock)
    registries,     \* node -> its peer list, a sequence of Registry (behind regLock)
    selfLock,       \* node -> "free" or the task holding Mutex<Registry>
    regLock,        \* node -> "free" or the task holding Mutex<Vec<Registry>>
    hpc,            \* node -> where its harvester task (docker_job) stands
    booted,         \* node -> whether the harvester has reached watch_events
    idx,            \* node -> index of the peer the collect / dispatch loop is at
    req,            \* node -> the outbound HTTP request its harvester awaits
    resp,           \* node -> the answer to that request, not yet read
    event,          \* node -> the last container event watch_events received
    lastHarvest,    \* node -> the service sets its last finished harvest left
    dns,            \* the DNS request being handled
    resolver,       \* the host resolver: name -> result of lookup_host
    cli,            \* the last request of an HTTP client outside the federation
    parser          \* the label text the parser was last given, and its result

vars == <<self_registry, registries, selfLock, regLock, hpc, booted, idx, req,
          resp, event, lastHarvest, dns, resolver, cli, parser>>

Nodes == {"alpha", "beta"}

\* SELF_HOSTNAME of a node.
SelfHostname(n) == <<n>>

\* The base URL a node's HTTP API is reached at by the others.
UrlString(host) == <<"http://", host, ":", "3000">>

\* Env::get_self_registry
EnvSelfRegistry(n) ==
    NewRegistry(Unwrap(ParseName(SelfHostname(n))),
                Unwrap(ParseUrl(<<"http://">> \o DEFAULT_REGISTRY_LISTEN)))

RECURSIVE ParseAll(_)
ParseAll(urls) ==
    IF urls = <<>> THEN Some(<<>>)
    ELSE LET r == RegistryFromStr(Head(urls))
             rest == ParseAll(Tail(urls))
         IN IF r.some /\ rest.some
            THEN Some(<<Unwrap(r)>> \o Unwrap(rest))
            ELSE None

\* Env::get_registries: REGISTRY_URLS split on spaces, every piece parsed.
EnvRegistries(urls) == ParseAll(Split(urls, " "))

\* ------------------------------------------------------- the environment
SvcA == <<"a">>
SvcB == <<"b">>

Label(label, value) == [label |-> label, value |-> value]

Container(labels) == [labels |-> labels]

\* The container listings the runtime may return.
Snapshots ==
    { <<>>,
      <<Container({Label(<<"caddy">>, <<"a", ".", "public">>)})>>,
      <<Container({Label(<<"caddy">>,
                         <<"a", ".", "public", ",", " ", "b", ".", "private">>),
                   Label(<<"caddy", "_", "8">>, <<"(", "b", ".", "public", ")">>)})>>,
      <<Container({Label(<<"caddy">>,
                         <<"http://", "a", ".", "public", ":", "80", " ",
                           "a", ".", "private">>)})>>,
      <<Container({Label(<<"caddy">>, <<"a", ".", "private">>)}),
        Container({Label(<<"traefik">>, <<"b", ".", "public">>)})>>,
      <<Container({Label(<<"caddy">>,
                         <<".", "public", " ",
                           "http://", ".", "private", ":", "80">>)})>> }

NoMsg == [kind |-> "none"]

GetRequest(url, path) ==
    [kind |-> "GET", to |-> url, path |-> path, body |-> Text("")]

PutRequest(url, path, body) ==
    [kind |-> "PUT", to |-> url, path |-> path, body |-> body]

\* What reqwest hands back: a transport error, or a status and a body.
TransportFailure == [kind |-> "error", status |-> 0, body |-> Text("")]

Response(status, body) == [kind |-> "ok", status |-> status, body |-> body]

Alive(n) == hpc[n] # "off"

\* The node a URL reaches, if it is one that runs.
Reaches(url, m) == Alive(m) /\ url.host = SelfHostname(m) /\ url.port = "3000"

\* The sets of a registry, as a harvest leaves them.
Sets(registry) ==
    [public_services |-> registry.public_services,
     private_services |-> registry.private_services]

\* The client's view of its last push goes stale when somebody else writes
\* the entry it pushed to.
Touched(m, hostname) ==
    IF cli.node = m /\ cli.path = hostname THEN [cli EXCEPT !.fresh = FALSE]
    ELSE cli

\* --------------------------------------------------------------- harvest
\* Docker::flush_registry_services up to the await on the container listing:
\* the lock is taken and both sets are cleared.
FlushLock(n) ==
    /\ hpc[n] = "flush"
    /\ selfLock[n] = "free"
    /\ selfLock' = [selfLock EXCEPT ![n] = "flush"]
    /\ self_registry' = [self_registry EXCEPT ![n] =
           clear_private_services(clear_public_services(@))]
    /\ hpc' = [hpc EXCEPT ![n] = "listing"]
    /\ UNCHANGED <<registries, regLock, booted, idx, req, resp, event,
                   lastHarvest, dns, resolver, cli, parser>>

\* A variant that pulls after every harvest.
AfterFlushCollect(n) == "collect"

\* Where main goes after a harvest: collect at startup, dispatch in the
\* watch_events callback.
AfterFlush(n) == IF booted[n] THEN "dispatch" ELSE "collect"

\* The listing arrived: every container is processed and the lock released.
FlushListed(n, containers) ==
    /\ hpc[n] = "listing"
    /\ self_registry' = [self_registry EXCEPT ![n] =
           ProcessContainers(@, containers)]
    /\ lastHarvest' = [lastHarvest EXCEPT ![n] = Sets(self_registry'[n])]
    /\ selfLock' = [selfLock EXCEPT ![n] = "free"]
    /\ hpc' = [hpc EXCEPT ![n] = AfterFlush(n)]
    /\ UNCHANGED <<registries, regLock, booted, idx, req, resp, event, dns,
                   resolver, cli, parser>>

\* The listing failed: the Err arm is taken, with the sets as the clear left
\* them.
FlushFailed(n) ==
    /\ hpc[n] = "listing"
    /\ hpc' = [hpc EXCEPT ![n] = "failed"]
    /\ UNCHANGED <<self_registry, registries, selfLock, regLock, booted, idx,
                   req, resp, event, lastHarvest, dns, resolver, cli, parser>>

\* The error is logged and the function returns: the lock is released.
FlushAborted(n) ==
    /\ hpc[n] = "failed"
    /\ lastHarvest' = [lastHarvest EXCEPT ![n] = Sets(self_registry[n])]
    /\ selfLock' = [selfLock EXCEPT ![n] = "free"]
    /\ hpc' = [hpc EXCEPT ![n] = AfterFlush(n)]
    /\ UNCHANGED <<self_registry, registries, regLock, booted, idx, req, resp,
                   event, dns, resolver, cli, parser>>

\* --------------------------------------------------------------- collect
CollectUrl(registry) == registry.url

\* collect_registry_services: the lock is taken and the first GET goes out.
CollectLock(n) ==
    /\ hpc[n] = "collect"
    /\ regLock[n] = "free"
    /\ IF Len(registries[n]) = 0
       THEN /\ hpc' = [hpc EXCEPT ![n] = "dispatch"]
            /\ UNCHANGED <<regLock, idx, req>>
       ELSE /\ regLock' = [regLock EXCEPT ![n] = "collect"]
            /\ idx' = [idx EXCEPT ![n] = 1]
            /\ req' = [req EXCEPT ![n] =
                   GetRequest(CollectUrl(registries[n][1]), <<"self">>)]
            /\ hpc' = [hpc EXCEPT ![n] = "collecting"]
    /\ UNCHANGED <<self_registry, registries, selfLock, booted, resp, event,
                   lastHarvest, dns, resolver, cli, parser>>

\* What one answer does to the peer the loop is at.
Collected(registry, response) ==
    IF response.kind = "ok" /\ FromJson(response.body).some
    THEN flush_public_services(registry, Unwrap(FromJson(response.body)))
    ELSE registry

\* The answer to the GET is read; the loop goes to the next peer or ends.
CollectResponse(n) ==
    /\ hpc[n] = "collecting"
    /\ resp[n] # NoMsg
    /\ registries' = [registries EXCEPT ![n][idx[n]] = Collected(@, resp[n])]
    /\ cli' = IF registries'[n] # registries[n]
              THEN Touched(n, NameToString(registries[n][idx[n]].hostname))
              ELSE cli
    /\ resp' = [resp EXCEPT ![n] = NoMsg]
    /\ IF idx[n] < Len(registries[n])
       THEN /\ idx' = [idx EXCEPT ![n] = @ + 1]
            /\ req' = [req EXCEPT ![n] =
                   GetRequest(CollectUrl(registries[n][idx[n] + 1]), <<"self">>)]
            /\ UNCHANGED <<hpc, regLock>>
       ELSE /\ regLock' = [regLock EXCEPT ![n] = "free"]
            /\ hpc' = [hpc EXCEPT ![n] = "dispatch"]
            /\ idx' = [idx EXCEPT ![n] = 0]
            /\ UNCHANGED req
    /\ UNCHANGED <<self_registry, selfLock, booted, event, lastHarvest, dns,
                   resolver, parser>>

\* -------------------------------------------------------------- dispatch
\* dispatch_registry_services: self_registry.lock().await
DispatchLockSelf(n) ==
    /\ hpc[n] = "dispatch"
    /\ selfLock[n] = "free"
    /\ selfLock' = [selfLock EXCEPT ![n] = "dispatch"]
    /\ hpc' = [hpc EXCEPT ![n] = "dispatch_registries"]
    /\ UNCHANGED <<self_registry, registries, regLock, booted, idx, req, resp,
                   event, lastHarvest, dns, resolver, cli, parser>>

\* A variant that pushes back what the peer itself last reported.
DispatchRequestEcho(n, i) ==
    PutRequest(registries[n][i].url, NameToString(self_registry[n].hostname),
               ToJson(registries[n][i].public_services))

\* The PUT dispatch_registry_services sends to the i-th peer.
DispatchRequest(n, i) ==
    PutRequest(registries[n][i].url, NameToString(self_registry[n].hostname),
               DispatchBody(self_registry[n]))

\* registries.lock().await, and the first PUT goes out.
DispatchLockRegistries(n) ==
    /\ hpc[n] = "dispatch_registries"
    /\ regLock[n] = "free"
    /\ IF Len(registries[n]) = 0
       THEN /\ hpc' = [hpc EXCEPT ![n] = "watch"]
            /\ booted' = [booted EXCEPT ![n] = TRUE]
            /\ selfLock' = [selfLock EXCEPT ![n] = "free"]
            /\ UNCHANGED <<regLock, idx, req>>
       ELSE /\ regLock' = [regLock EXCEPT ![n] = "dispatch"]
            /\ idx' = [idx EXCEPT ![n] = 1]
            /\ req' = [req EXCEPT ![n] = DispatchRequest(n, 1)]
            /\ hpc' = [hpc EXCEPT ![n] = "dispatching"]
            /\ UNCHANGED <<booted, selfLock>>
    /\ UNCHANGED <<self_registry, registries, resp, event, lastHarvest, dns,
                   resolver, cli, parser>>

\* The answer to the PUT is read (and only logged); next peer, or the end.
DispatchResponse(n) ==
    /\ hpc[n] = "dispatching"
    /\ resp[n] # NoMsg
    /\ resp' = [resp EXCEPT ![n] = NoMsg]
    /\ IF idx[n] < Len(registries[n])
       THEN /\ idx' = [idx EXCEPT ![n] = @ + 1]
            /\ req' = [req EXCEPT ![n] = DispatchRequest(n, idx[n] + 1)]
            /\ UNCHANGED <<hpc, booted, selfLock, regLock>>
       ELSE /\ selfLock' = [selfLock EXCEPT ![n] = "free"]
            /\ regLock' = [regLock EXCEPT ![n] = "free"]
            /\ hpc' = [hpc EXCEPT ![n] = "watch"]
            /\ booted' = [booted EXCEPT ![n] = TRUE]
            /\ idx' = [idx EXCEPT ![n] = 0]
            /\ UNCHANGED req
    /\ UNCHANGED <<self_registry, registries, event, lastHarvest, dns,
                   resolver, cli, parser>>

\* ------------------------------------------------------------ watch_events
EventActions == {"start", "die", "error"}

\* Docker::watch_events: events.next().await yields one item of the stream.
ContainerEvent(n, action) ==
    /\ hpc[n] = "watch"
    /\ event' = [event EXCEPT ![n] = action]
    /\ hpc' = [hpc EXCEPT ![n] = "event"]
    /\ UNCHANGED <<self_registry, registries, selfLock, regLock, booted, idx,
                   req, resp, lastHarvest, dns, resolver, cli, parser>>

\* A variant that runs the callback for every event that is not an error.
RelevantUnlessError(action) == action # "error"

\* Whether watch_events calls the callback for the event.
Relevant(action) == action = "start"

\* The body of the loop: the callback runs for a relevant event only.
HandleEvent(n) ==
    /\ hpc[n] = "event"
    /\ event' = [event EXCEPT ![n] = ""]
    /\ hpc' = [hpc EXCEPT ![n] = IF Relevant(event[n]) THEN "flush" ELSE "watch"]
    /\ UNCHANGED <<self_registry, registries, selfLock, regLock, booted, idx,
                   req, resp, lastHarvest, dns, resolver, cli, parser>>

\* --------------------------------------------------------------- network
\* A running node serves PUT /api/{registry_hostname}/services of a peer's
\* dispatch: put_registry_services, under the peer-list lock.
HandlePut(m, n) ==
    /\ req[n] # NoMsg
    /\ req[n].kind = "PUT"
    /\ Reaches(req[n].to, m)
    /\ regLock[m] = "free"
    /\ LET r == put_registry_services(registries[m], req[n].path, req[n].body)
       IN /\ registries' = [registries EXCEPT ![m] = r.registries]
          /\ resp' = [resp EXCEPT ![n] = Response(200, r.reply)]
          /\ cli' = IF r.registries # registries[m]
                    THEN Touched(m, req[n].path) ELSE cli
    /\ req' = [req EXCEPT ![n] = NoMsg]
    /\ UNCHANGED <<self_registry, selfLock, regLock, hpc, booted, idx, event,
                   lastHarvest, dns, resolver, parser>>

\* A running node serves GET /api/self/services of a peer's collect:
\* get_self_services, under the self-registry lock.
HandleGetSelf(m, n) ==
    /\ req[n] # NoMsg
    /\ req[n].kind = "GET"
    /\ Reaches(req[n].to, m)
    /\ selfLock[m] = "free"
    /\ resp' = [resp EXCEPT ![n] =
           Response(200, get_self_services(self_registry[m]))]
    /\ req' = [req EXCEPT ![n] = NoMsg]
    /\ UNCHANGED <<self_registry, registries, selfLock, regLock, hpc, booted,
                   idx, event, lastHarvest, dns, resolver, cli, parser>>

Unreachable(url) == \A m \in Nodes : ~Reaches(url, m)

\* The request reaches nobody: reqwest reports an error.
TransportError(n) ==
    /\ req[n] # NoMsg
    /\ Unreachable(req[n].to)
    /\ resp' = [resp EXCEPT ![n] = TransportFailure]
    /\ req' = [req EXCEPT ![n] = NoMsg]
    /\ UNCHANGED <<self_registry, registries, selfLock, regLock, hpc, booted,
                   idx, event, lastHarvest, dns, resolver, cli, parser>>

ForeignStatuses == {200, 500}

ForeignBodies == {JsonArray(<<SvcA>>), Text("oops")}

\* The URL is served by something that is not a node of the model.
ForeignReply(n, status, body) ==
    /\ req[n] # NoMsg
    /\ Unreachable(req[n].to)
    /\ resp' = [resp EXCEPT ![n] = Response(status, body)]
    /\ req' = [req EXCEPT ![n] = NoMsg]
    /\ UNCHANGED <<self_registry, registries, selfLock, regLock, hpc, booted,
                   idx, event, lastHarvest, dns, resolver, cli, parser>>

\* ------------------------------------------------------- an HTTP client
IdleClient ==
    [pc |-> "idle", node |-> "", path |-> <<>>, body |-> Text(""),
     known |-> FALSE, reply |-> Text(""), fresh |-> FALSE]

ClientPaths == {<<"beta">>, <<"gamma">>, UrlString("gamma")}

ClientBodies == {JsonArray(<<SvcA>>), JsonArray(<<SvcB, SvcB>>), Text("{}")}

\* PUT /api/{path}/services from outside: put_registry_services.
ClientPut(m, path, body) ==
    /\ cli.pc = "idle"
    /\ Alive(m)
    /\ regLock[m] = "free"
    /\ LET r == put_registry_services(registries[m], path, body)
       IN /\ Len(r.registries) <= MaxPeers
          /\ registries' = [registries EXCEPT ![m] = r.registries]
          /\ cli' = [pc |-> "put", node |-> m, path |-> path, body |-> body,
                     known |-> FindRegistry(registries[m], path) # 0,
                     reply |-> r.reply, fresh |-> TRUE]
    /\ UNCHANGED <<self_registry, selfLock, regLock, hpc, booted, idx, req,
                   resp, event, lastHarvest, dns, resolver, parser>>

\* GET /api/{path}/services from outside, by a client that is idle or that
\* reads back what it has just pushed: get_registry_services.
ClientGet(m, path) ==
    /\ \/ cli.pc = "idle"
       \/ cli.pc = "put" /\ cli.node = m /\ cli.path = path
    /\ Alive(m)
    /\ regLock[m] = "free"
    /\ cli' = [cli EXCEPT !.pc = "get", !.node = m, !.path = path,
                          !.reply = get_registry_services(registries[m], path)]
    /\ UNCHANGED <<self_registry, registries, selfLock, regLock, hpc, booted,
                   idx, req, resp, event, lastHarvest, dns, resolver, parser>>

\* GET /api/self/services from outside: get_self_services.
ClientGetSelf(m) ==
    /\ cli.pc = "idle"
    /\ Alive(m)
    /\ selfLock[m] = "free"
    /\ cli' = [IdleClient EXCEPT !.pc = "get", !.node = m, !.path = <<"self">>,
                                 !.reply = get_self_services(self_registry[m])]
    /\ UNCHANGED <<self_registry, registries, selfLock, regLock, hpc, booted,
                   idx, req, resp, event, lastHarvest, dns, resolver, parser>>

\* The client is done with the answer.
ClientDone ==
    /\ cli.pc \in {"put", "get"}
    /\ cli' = IdleClient
    /\ UNCHANGED <<self_registry, registries, selfLock, regLock, hpc, booted,
                   idx, req, resp, event, lastHarvest, dns, resolver, parser>>

\* -------------------------------------------------------------------- DNS
Addr(v4, ip) == [v4 |-> v4, ip |-> ip]

\* dns_lookup::lookup_host: the addresses of the name, or an error.
LookupHost(name) ==
    IF name \in DOMAIN resolver THEN Some(resolver[name]) ELSE None

\* Dns::query_upstream
query_upstream(name) ==
    IF LookupHost(name).some THEN FirstV4(Unwrap(LookupHost(name))) ELSE None

\* impl TryInto<RData> for Registry
RegistryTryInto(registry) == query_upstream(NameToString(registry.hostname))

\* Dns::query_self_registry, on the snapshot it cloned.
query_self_registry(registry, service) ==
    IF has_public_service(registry, service)
       \/ has_private_service(registry, service)
    THEN RegistryTryInto(registry)
    ELSE None

\* A variant in which the last peer that advertises the service decides.
query_registries_last(regs, service) ==
    LET hits == {i \in 1..Len(regs) : has_public_service(regs[i], service)} IN
    IF hits = {} THEN None
    ELSE RegistryTryInto(regs[CHOOSE i \in hits : \A j \in hits : i >= j])

\* Dns::query_registries, on the snapshot it cloned: the first peer that
\* advertises the service decides.
query_registries(regs, service) ==
    LET hits == {i \in 1..Len(regs) : has_public_service(regs[i], service)} IN
    IF hits = {} THEN None
    ELSE RegistryTryInto(regs[CHOOSE i \in hits : \A j \in hits : i <= j])

NoReply == [rcode |-> "", answers |-> <<>>]

\* The response handle_request builds from the data it found.
BuildReply(name, data) ==
    IF data.some
    THEN [rcode |-> "NoError",
          answers |-> <<[name |-> name, ttl |-> 0, ip |-> Unwrap(data)]>>]
    ELSE [rcode |-> "NXDomain", answers |-> <<>>]

\* A variant that never asks upstream.
CascadeRegistriesOnly(self_data, registries_data, upstream_data) ==
    OrElse(self_data, registries_data)

\* A variant that asks the peers' services before the node's own.
CascadePeersFirst(self_data, registries_data, upstream_data) ==
    OrElse(OrElse(registries_data, self_data), upstream_data)

\* The chain  self.or(peers).or(upstream)  of handle_request.
Cascade(self_data, registries_data, upstream_data) ==
    OrElse(OrElse(self_data, registries_data), upstream_data)

LabelTokens == {"a", PUBLIC_SERVICE_TLD, PRIVATE_SERVICE_TLD}

\* The query names: 0..MaxLabels labels, each followed by a dot (the root
\* name prints as a single dot).
RECURSIVE NamesOf(_)
NamesOf(k) ==
    IF k = 0 THEN {<<>>}
    ELSE {<<l, ".">> \o rest : l \in LabelTokens, rest \in NamesOf(k - 1)}

\* Longer names a query may carry, with two TLD labels.
LongNames ==
    { <<"a", ".", "public", ".", "public", ".">>,
      <<"a", ".", "private", ".", "public", ".">>,
      <<"a", ".", "public", ".", "private", ".">> }

QueryNames ==
    {<<".">>} \cup UNION {NamesOf(k) : k \in 1..MaxLabels} \cup LongNames

IdleDns ==
    [pc |-> "idle", node |-> "", name |-> <<>>, service |-> <<>>,
     self_snapshot |-> Sets(NewRegistry(<<>>, <<>>)), self_data |-> None,
     reply |-> NoReply]

\* handle_request up to the first await: the service key is extracted.
DnsReceive(n, name) ==
    /\ dns.pc \in {"idle", "replied"}
    /\ Alive(n)
    /\ dns' = [IdleDns EXCEPT !.pc = "self", !.node = n, !.name = name,
                              !.service = ServiceKey(name)]
    /\ UNCHANGED <<self_registry, registries, selfLock, regLock, hpc, booted,
                   idx, req, resp, event, lastHarvest, resolver, cli, parser>>

\* A variant that reads the self registry without its lock.
SelfReadableUnlocked(n) == TRUE

\* Whether a reader may take the self-registry mutex.
SelfReadable(n) == selfLock[n] = "free"

\* query_self_registry: clone the self registry under its lock, then look.
DnsQuerySelf(n) ==
    /\ dns.pc = "self"
    /\ dns.node = n
    /\ SelfReadable(n)
    /\ dns' = [dns EXCEPT !.pc = "registries",
                          !.self_snapshot = Sets(self_registry[n]),
                          !.self_data =
                              query_self_registry(self_registry[n], dns.service)]
    /\ UNCHANGED <<self_registry, registries, selfLock, regLock, hpc, booted,
                   idx, req, resp, event, lastHarvest, resolver, cli, parser>>

\* A variant that hands the stripped service key upstream.
UpstreamNameStripped(d) == d.service

\* The name handle_request hands to the upstream resolver.
UpstreamName(d) == d.name

\* query_registries: clone the peer list under its lock, then look; then the
\* upstream lookup, and the reply, after which the locals are gone.
DnsQueryRegistries(n) ==
    /\ dns.pc = "registries"
    /\ dns.node = n
    /\ regLock[n] = "free"
    /\ dns' = [IdleDns EXCEPT
                  !.pc = "replied", !.node = n, !.name = dns.name,
                  !.service = dns.service,
                  !.reply =
                      BuildReply(dns.name,
                          Cascade(dns.self_data,
                                  query_registries(registries[n], dns.service),
                                  query_upstream(UpstreamName(dns))))]
    /\ UNCHANGED <<self_registry, registries, selfLock, regLock, hpc, booted,
                   idx, req, resp, event, lastHarvest, resolver, cli, parser>>

\* ------------------------------------------------------- the label parser
\* The label values handed to parse_address: every text of up to MaxValueLen
\* tokens over a name, the comma and two kinds of whitespace.
ValueTokens == {"a", ",", " ", "\t"}

Values == UNION {[1..k -> ValueTokens] : k \in 0..MaxValueLen}

\* The addresses handed to capture_service, by their parts.
Schemes == {<<>>, <<"http://">>, <<"https://">>}

ServiceNames == {<<>>, <<"a">>, <<"a", ".", "b">>, <<"a", ".", "public">>}

Suffixes ==
    { <<>>, <<".", PUBLIC_SERVICE_TLD>>, <<".", PRIVATE_SERVICE_TLD>>,
      <<".", "pub">>, <<".", "priv">>, <<".", "pubx">> }

Ports == {<<>>, <<":", "80">>, <<":", "x">>}

IdleParser ==
    [pc |-> "idle", value |-> <<>>, tokens |-> <<>>, scheme |-> <<>>,
     name |-> <<>>, suffix |-> <<>>, port |-> <<>>, address |-> <<>>,
     public |-> None, private |-> None]

\* parse_address is called on a label value.
ParseValue(value) ==
    /\ parser.pc = "idle"
    /\ parser' = [IdleParser EXCEPT !.pc = "parsed", !.value = value,
                                    !.tokens = parse_address(value)]
    /\ UNCHANGED <<self_registry, registries, selfLock, regLock, hpc, booted,
                   idx, req, resp, event, lastHarvest, dns, resolver, cli>>

\* capture_service is called on an address, with each of the two regexes.
CaptureAddress(scheme, name, suffix, port) ==
    /\ parser.pc = "idle"
    /\ LET address == scheme \o name \o suffix \o port IN
       parser' = [IdleParser EXCEPT
                     !.pc = "captured", !.scheme = scheme, !.name = name,
                     !.suffix = suffix, !.port = port, !.address = address,
                     !.public = capture_service(address, PUBLIC_SERVICE_TLD),
                     !.private = capture_service(address, PRIVATE_SERVICE_TLD)]
    /\ UNCHANGED <<self_registry, registries, selfLock, regLock, hpc, booted,
                   idx, req, resp, event, lastHarvest, dns, resolver, cli>>

\* The result is consumed.
ParserDone ==
    /\ parser.pc # "idle"
    /\ parser' = IdleParser
    /\ UNCHANGED <<self_registry, registries, selfLock, regLock, hpc, booted,
                   idx, req, resp, event, lastHarvest, dns, resolver, cli>>

\* ------------------------------------------------------- specifications
\* What the host resolver knows.  A name it does not list fails to resolve.
ResolverTables ==
    { (<<"alpha">> :> <<Addr(TRUE, 1)>>) @@ (<<"beta">> :> <<Addr(TRUE, 2)>>)
        @@ (<<"gamma">> :> <<Addr(FALSE, 9), Addr(TRUE, 3)>>)
        @@ (<<"a", ".">> :> <<Addr(TRUE, 7)>>)
        @@ (<<"a">> :> <<Addr(TRUE, 8)>>)
        @@ (<<"a", ".", "public", ".">> :> <<Addr(FALSE, 9)>>),
      (<<"beta">> :> <<Addr(FALSE, 9)>>) @@ (<<"gamma">> :> <<Addr(TRUE, 3)>>)
        @@ (<<"a", ".", "public", ".">> :> <<Addr(FALSE, 9), Addr(TRUE, 7)>>)
        @@ (<<"a">> :> <<Addr(TRUE, 8)>>) }

\* REGISTRY_URLS of each node, per deployment.
FederationUrls ==
    { [alpha |-> UrlString("beta"), beta |-> UrlString("alpha")],
      [alpha |-> UrlString("gamma"), beta |-> UrlString("alpha")],
      [alpha |-> UrlString("alpha"), beta |-> UrlString("alpha")] }

ApiUrls == { [alpha |-> UrlString("beta"), beta |-> UrlString("alpha")] }

DnsUrls ==
    { [alpha |-> UrlString("beta") \o <<" ">> \o UrlString("gamma"),
       beta |-> UrlString("alpha")] }

\* The state main has built when it spawns its tasks, for the nodes that run.
Startup(urls, running) ==
    /\ \A n \in Nodes : EnvRegistries(urls[n]).some
    /\ self_registry = [n \in Nodes |-> EnvSelfRegistry(n)]
    /\ registries = [n \in Nodes |-> Unwrap(EnvRegistries(urls[n]))]
    /\ selfLock = [n \in Nodes |-> "free"]
    /\ regLock = [n \in Nodes |-> "free"]
    /\ hpc = [n \in Nodes |-> IF n \in running THEN "flush" ELSE "off"]
    /\ booted = [n \in Nodes |-> FALSE]
    /\ idx = [n \in Nodes |-> 0]
    /\ req = [n \in Nodes |-> NoMsg]
    /\ resp = [n \in Nodes |-> NoMsg]
    /\ event = [n \in Nodes |-> ""]
    /\ lastHarvest = [n \in Nodes |-> Sets(EnvSelfRegistry(n))]
    /\ dns = IdleDns
    /\ cli = IdleClient
    /\ parser = IdleParser

\* The harvester task of a node, and what answers it from outside the model.
Harvester(n) ==
    \/ FlushLock(n)
    \/ \E containers \in Snapshots : FlushListed(n, containers)
    \/ FlushFailed(n)
    \/ FlushAborted(n)
    \/ CollectLock(n)
    \/ CollectResponse(n)
    \/ DispatchLockSelf(n)
    \/ DispatchLockRegistries(n)
    \/ DispatchResponse(n)
    \/ \E action \in EventActions : ContainerEvent(n, action)
    \/ HandleEvent(n)
    \/ TransportError(n)
    \/ \E status \in ForeignStatuses, body \in ForeignBodies :
           ForeignReply(n, status, body)

Client ==
    \/ \E m \in Nodes, path \in ClientPaths, body \in ClientBodies :
           ClientPut(m, path, body)
    \/ \E m \in Nodes, path \in ClientPaths : ClientGet(m, path)
    \/ \E m \in Nodes : ClientGetSelf(m)
    \/ ClientDone

\* The federation: two nodes that run, each with its configured peers.
Init ==
    /\ \E urls \in FederationUrls : Startup(urls, Nodes)
    /\ resolver \in {CHOOSE t \in ResolverTables : <<"alpha">> \in DOMAIN t}

Next ==
    \/ \E n \in Nodes : Harvester(n)
    \/ \E m \in Nodes, n \in Nodes : HandlePut(m, n)
    \/ \E m \in Nodes, n \in Nodes : HandleGetSelf(m, n)

Spec == Init /\ [][Next]_vars

\* One node and the clients of its HTTP API; its peers are outside the model.
InitApi ==
    /\ \E urls \in ApiUrls : Startup(urls, {"alpha"})
    /\ resolver \in {CHOOSE t \in ResolverTables : <<"alpha">> \in DOMAIN t}

NextApi ==
    \/ \E n \in Nodes : Harvester(n)
    \/ Client

SpecApi == InitApi /\ [][NextApi]_vars

\* One node and its DNS server; its peers are outside the model.
InitDns ==
    /\ \E urls \in DnsUrls : Startup(urls, {"alpha"})
    /\ resolver \in ResolverTables

NextDns ==
    \/ \E n \in Nodes : Harvester(n)
    \/ \E n \in Nodes, name \in QueryNames : DnsReceive(n, name)
    \/ \E n \in Nodes : DnsQuerySelf(n)
    \/ \E n \in Nodes : DnsQueryRegistries(n)

SpecDns == InitDns /\ [][NextDns]_vars

\* The label parser alone, on the texts and addresses above; no node runs.
InitParse ==
    /\ \E urls \in ApiUrls : Startup(urls, {})
    /\ resolver \in {CHOOSE t \in ResolverTables : <<"alpha">> \in DOMAIN t}

NextParse ==
    \/ \E value \in Values : ParseValue(value)
    \/ \E scheme \in Schemes, name \in ServiceNames, suffix \in Suffixes,
          port \in Ports : CaptureAddress(scheme, name, suffix, port)
    \/ ParserDone

SpecParse == InitParse /\ [][NextParse]_vars

\* ------------------------------------------------------------ properties
\* The step in which handle_request builds its reply.
DnsReplies == dns.pc = "registries" /\ dns'.pc = "replied"

\* The step in which query_self_registry clones the self registry.
DnsReadsSelf == dns.pc = "self" /\ dns'.pc = "registries"

InSets(service, sets) ==
    service \in sets.public_services \cup sets.private_services

SomePeerHas(regs, service) ==
    \E i \in 1..Len(regs) : service \in regs[i].public_services

ARecord(name, ip) ==
    [rcode |-> "NoError", answers |-> <<[name |-> name, ttl |-> 0, ip |-> ip]>>]

NxDomain == [rcode |-> "NXDomain", answers |-> <<>>]

\* C1: a query whose service key is in the self registry and also in a
\* peer's public services, while the self hostname resolves to an IPv4, is
\* answered with the A record of the self hostname's address.
C1_SelfPrecedence ==
    [][(/\ DnsReplies
        /\ InSets(dns.service, dns.self_snapshot)
        /\ SomePeerHas(registries[dns.node], dns.service)
        /\ query_upstream(SelfHostname(dns.node)).some)
       => dns'.reply =
              ARecord(dns.name, Unwrap(query_upstream(SelfHostname(dns.node))))]_vars

\* A reply built from the self hostname although a peer that resolves to
\* another address advertises the service and upstream knows the name too.
C1_Witness ==
    /\ dns.pc = "replied"
    /\ dns.name = <<"a", ".">>
    /\ InSets(dns.service, Sets(self_registry[dns.node]))
    /\ \E i \in 1..Len(registries[dns.node]) :
          /\ dns.service \in registries[dns.node][i].public_services
          /\ RegistryTryInto(registries[dns.node][i]).some
          /\ RegistryTryInto(registries[dns.node][i])
                 # query_upstream(SelfHostname(dns.node))
    /\ query_upstream(dns.name).some
    /\ query_upstream(dns.name) # query_upstream(SelfHostname(dns.node))
    /\ query_upstream(SelfHostname(dns.node)).some
    /\ dns.reply =
           ARecord(dns.name, Unwrap(query_upstream(SelfHostname(dns.node))))

\* C2: a query whose service key is in neither the self registry nor any
\* peer's public services is answered from the host resolver's answer for the
\* original query name: an A record with its first IPv4, else NXDOMAIN with
\* no records.
C2_UnknownFallThrough ==
    [][(/\ DnsReplies
        /\ ~InSets(dns.service, dns.self_snapshot)
        /\ ~SomePeerHas(registries[dns.node], dns.service))
       => dns'.reply =
              IF dns.name \in DOMAIN resolver /\ FirstV4(resolver[dns.name]).some
              THEN ARecord(dns.name, Unwrap(FirstV4(resolver[dns.name])))
              ELSE NxDomain]_vars

\* An unknown name with a TLD stripped, answered with what upstream says of
\* the unstripped name.
C2_Witness ==
    /\ dns.pc = "replied"
    /\ dns.name = <<"a", ".", "public", ".">>
    /\ dns.service = <<"a">>
    /\ ~InSets(dns.service, Sets(self_registry[dns.node]))
    /\ ~SomePeerHas(registries[dns.node], dns.service)
    /\ dns.reply = ARecord(dns.name, 7)

EndsInTld(s) ==
    \/ EndsWith(s, <<".", PUBLIC_SERVICE_TLD>>)
    \/ EndsWith(s, <<".", PRIVATE_SERVICE_TLD>>)

\* C3: for a service name svc that does not end in .public or .private, the
\* queries svc.public., svc.private. and svc. all give the service key svc.
C3_TldStripping ==
    dns.pc # "idle" =>
        \A k \in 0..Len(dns.name) :
            LET svc == SubSeq(dns.name, 1, k) IN
            (/\ ~EndsInTld(svc)
             /\ dns.name \in {svc \o <<".", PUBLIC_SERVICE_TLD, ".">>,
                              svc \o <<".", PRIVATE_SERVICE_TLD, ".">>,
                              svc \o <<".">>})
            => dns.service = svc

\* The three spellings of a service have been asked for; this is the one
\* with the private TLD.
C3_Witness ==
    /\ dns.pc = "replied"
    /\ dns.name = <<"a", ".", "private", ".">>
    /\ dns.service = <<"a">>
    /\ InSets(dns.service, Sets(self_registry[dns.node]))
    /\ dns.reply.rcode = "NoError"

PrivateOnly(registry) == registry.private_services \ registry.public_services

IsPut(msg) == msg # NoMsg /\ msg.kind = "PUT"

IsGet(msg) == msg # NoMsg /\ msg.kind = "GET"

\* C4: no service that is only in a node's private set is in the body of a
\* GET /api/self/services response or of a dispatch PUT the node sends, and
\* what a pull or a push writes into a peer entry is the body that was sent.
C4_PrivateNeverTransmitted ==
    [][/\ \A n \in Nodes :
             (IsPut(req'[n]) /\ req'[n] # req[n])
             => Range(req'[n].body.items) \cap PrivateOnly(self_registry[n]) = {}
       /\ \A n \in Nodes, m \in Nodes :
             (IsGet(req[n]) /\ Reaches(req[n].to, m) /\ resp'[n] # resp[n])
             => /\ resp'[n].body.kind = "json"
                /\ Range(resp'[n].body.items) \cap PrivateOnly(self_registry[m]) = {}
       /\ \A n \in Nodes, m \in Nodes :
             (IsPut(req[n]) /\ Reaches(req[n].to, m) /\ req'[n] = NoMsg
              /\ registries'[m] # registries[m])
             => \E i \in 1..Len(registries[m]) :
                   registries'[m] = [registries[m] EXCEPT
                       ![i].public_services = Range(req[n].body.items)]
       /\ \A n \in Nodes :
             (hpc[n] = "collecting" /\ registries'[n] # registries[n])
             => registries'[n] = [registries[n] EXCEPT
                    ![idx[n]].public_services = Range(resp[n].body.items)]]_vars

\* A node that holds a private-only service pushes its public services to a
\* running peer that lists it.
C4_Witness ==
    \E n \in Nodes, m \in Nodes :
        /\ IsPut(req[n])
        /\ Reaches(req[n].to, m)
        /\ PrivateOnly(self_registry[n]) # {}
        /\ req[n].body.items # <<>>
        /\ FindRegistry(registries[m], SelfHostname(n)) # 0

\* C5: no service name is in both sets of a self registry once a harvest is
\* over, whatever the containers' labels.
C5_Disjoint ==
    \A n \in Nodes :
        hpc[n] # "listing" =>
            self_registry[n].public_services
                \cap self_registry[n].private_services = {}

\* C7: what a DNS lookup reads of the self registry's sets is what the last
\* finished harvest left: the sets before a running harvest, or after it.
C7_HarvestAtomic ==
    [][DnsReadsSelf => dns'.self_snapshot = lastHarvest[dns.node]]_vars

\* A lookup holds the sets it read before the harvest that is now running
\* cleared them.
C7_Witness ==
    /\ dns.pc = "registries"
    /\ hpc[dns.node] = "listing"
    /\ dns.self_snapshot.public_services # {}
    /\ self_registry[dns.node].public_services = {}

\* C8: every PUT of a dispatch carries the public services the preceding
\* harvest left.
C8_DispatchAfterHarvest ==
    \A n \in Nodes :
        IsPut(req[n]) =>
            FromJson(req[n].body) = Some(lastHarvest[n].public_services)

\* The dispatch after a start event is pushing a non-empty set.
C8_Witness ==
    \E n \in Nodes :
        /\ IsPut(req[n])
        /\ booted[n]
        /\ hpc[n] = "dispatching"
        /\ lastHarvest[n].public_services # {}
        /\ lastHarvest[n].private_services # {}

\* C9: no task holds the self-registry lock or the peer-list lock while an
\* outbound HTTP request it issued is in flight.
C9_NoLockAcrossRequest ==
    \A n \in Nodes :
        req[n] # NoMsg =>
            /\ selfLock[n] \notin {"dispatch"}
            /\ regLock[n] \notin {"collect", "dispatch"}

\* The step in which the node serves the client's PUT.
ClientPuts == cli.pc = "idle" /\ cli'.pc = "put"

\* C6 as claimed: after a push of a set S for <A>, with no further update
\* for <A>, the next GET /api/<A>/services returns S.
C6_RoundTripAnyPeer ==
    (cli.pc = "get" /\ cli.fresh /\ FromJson(cli.body).some)
    => FromJson(cli.reply) = FromJson(cli.body)

\* C6, amended: the same, for a push that names a peer the node already
\* lists.
C6_RoundTripKnownPeer ==
    (cli.pc = "get" /\ cli.fresh /\ cli.known /\ FromJson(cli.body).some)
    => FromJson(cli.reply) = FromJson(cli.body)

\* A push over a peer's non-empty set has been read back.
C6_Witness ==
    /\ cli.pc = "get"
    /\ cli.fresh
    /\ cli.known
    /\ cli.path = <<"beta">>
    /\ FromJson(cli.body) = Some({SvcB})
    /\ FromJson(cli.reply) = Some({SvcB})

\* C10 as claimed: a PUT for a hostname that matches no peer, whose path
\* parses as a peer URL and whose body decodes to a set S, is answered
\* Success and leaves a peer for that URL whose public services are S.
C10_SelfRegistrationStoresBody ==
    [][(/\ ClientPuts
        /\ FindRegistry(registries[cli'.node], cli'.path) = 0
        /\ RegistryFromStr(cli'.path).some
        /\ FromJson(cli'.body).some)
       => /\ cli'.reply = Text("Success")
          /\ \E i \in 1..Len(registries'[cli'.node]) :
                /\ registries'[cli'.node][i].url = Unwrap(ParseUrl(cli'.path))
                /\ registries'[cli'.node][i].public_services
                       = Unwrap(FromJson(cli'.body))]_vars

\* C10, amended: such a PUT is answered Success and appends a peer for that
\* URL whose service sets are empty; the body is not stored.
C10_SelfRegistrationEmpty ==
    [][(/\ ClientPuts
        /\ FindRegistry(registries[cli'.node], cli'.path) = 0
        /\ RegistryFromStr(cli'.path).some
        /\ FromJson(cli'.body).some)
       => /\ cli'.reply = Text("Success")
          /\ registries'[cli'.node] =
                 Append(registries[cli'.node],
                        [hostname |-> Unwrap(ParseUrl(cli'.path)).host,
                         url |-> Unwrap(ParseUrl(cli'.path)),
                         public_services |-> {},
                         private_services |-> {}])]_vars

\* gamma has registered itself with a body of one service and is listed
\* with no service.
C10_Witness ==
    /\ cli.pc = "put"
    /\ cli.path = UrlString("gamma")
    /\ ~cli.known
    /\ FromJson(cli.body) = Some({SvcA})
    /\ cli.reply = Text("Success")
    /\ LET regs == registries[cli.node] IN
       /\ regs[Len(regs)].url.host = <<"gamma">>
       /\ regs[Len(regs)].public_services = {}

\* The step in which node m serves the PUT that node n's dispatch sent.
ServesPut(m, n) ==
    IsPut(req[n]) /\ Reaches(req[n].to, m) /\ req'[n] = NoMsg

\* C11: when a node's dispatch PUT has been handled by a peer that did not
\* list the sender, the peer's list holds a registry for the sender.
C11_PushDiscovers ==
    [][\A m \in Nodes, n \in Nodes :
          (ServesPut(m, n) /\ FindRegistry(registries[m], SelfHostname(n)) = 0)
          => \E i \in 1..Len(registries'[m]) :
                \/ registries'[m][i].hostname = self_registry[n].hostname
                \/ registries'[m][i].url.host = SelfHostname(n)]_vars

\* C12 as claimed: a PUT whose body does not decode to an array of strings,
\* for any hostname, is answered Invalid services and leaves the peer list
\* as it was.
C12_MalformedBodyAnyHostname ==
    [][(ClientPuts /\ ~FromJson(cli'.body).some)
       => /\ cli'.reply = Text("Invalid services")
          /\ registries' = registries]_vars

\* C12, amended: the same, for a hostname that names a peer of the list.
C12_MalformedBodyKnownPeer ==
    [][(/\ ClientPuts
        /\ ~FromJson(cli'.body).some
        /\ FindRegistry(registries[cli'.node], cli'.path) # 0)
       => /\ cli'.reply = Text("Invalid services")
          /\ registries' = registries]_vars

\* A malformed body was sent for a peer that holds a service, and refused.
C12_Witness ==
    /\ cli.pc = "put"
    /\ cli.known
    /\ cli.body = Text("{}")
    /\ cli.reply = Text("Invalid services")
    /\ FindRegistry(registries[cli.node], cli.path) # 0
    /\ registries[cli.node][FindRegistry(registries[cli.node], cli.path)]
           .public_services # {}

\* The step in which collect reads the answer to its GET.
CollectReads(n) == hpc[n] = "collecting" /\ resp[n] # NoMsg /\ resp'[n] = NoMsg

\* A pull that failed: a transport error, a status outside 2xx, or a body
\* that does not decode.
PullFailed(response) ==
    \/ response.kind = "error"
    \/ response.status \notin 200..299
    \/ ~FromJson(response.body).some

\* C13: a pull that ends in a transport error, an undecodable body or a
\* non-2xx status leaves every peer's public services as they were, and the
\* loop goes on to the next peer.
C13_PullFailureRetention ==
    [][\A n \in Nodes :
          (CollectReads(n) /\ PullFailed(resp[n]))
          => /\ registries'[n] = registries[n]
             /\ idx[n] < Len(registries[n])
                => IsGet(req'[n])
                   /\ req'[n].to = registries[n][idx[n] + 1].url]_vars

\* The step in which watch_events has looked at the event it received.
EventHandled(n) == hpc[n] = "event" /\ hpc'[n] # "event"

\* C14: an event whose action is not start, or an errored event, leaves the
\* self registry and the peer list as they were and starts neither a harvest
\* nor a dispatch; a start event starts a harvest, and nothing else that
\* watch_events receives does.
C14_EventFiltering ==
    [][\A n \in Nodes :
          /\ (EventHandled(n) /\ event[n] # "start")
             => /\ hpc'[n] = "watch"
                /\ self_registry'[n] = self_registry[n]
                /\ registries'[n] = registries[n]
                /\ selfLock'[n] = selfLock[n]
                /\ regLock'[n] = regLock[n]
                /\ req'[n] = req[n]
          /\ (EventHandled(n) /\ event[n] = "start") => hpc'[n] = "flush"
          /\ (booted[n] /\ hpc[n] # "flush" /\ hpc'[n] = "flush")
             => event[n] = "start"]_vars

\* A node that holds services has received a die event and waits again.
C14_Witness ==
    \E n \in Nodes :
        /\ hpc[n] = "event"
        /\ event[n] = "die"
        /\ booted[n]
        /\ self_registry[n].public_services # {}
        /\ \E i \in 1..Len(registries[n]) : registries[n][i].public_services # {}

\* C15: when the container listing of a harvest fails, the self registry's
\* public and private services are what they were before the harvest.
C15_FailedHarvestKeepsState ==
    \A n \in Nodes :
        hpc[n] = "failed" => Sets(self_registry[n]) = lastHarvest[n]

\* The peers of a list that advertise a service, by index.
PeersWith(regs, service) ==
    {i \in 1..Len(regs) : service \in regs[i].public_services}

\* The first IPv4 the resolver gives for a peer's hostname, if any.
Resolves(registry) ==
    /\ NameToString(registry.hostname) \in DOMAIN resolver
    /\ \E k \in 1..Len(resolver[NameToString(registry.hostname)]) :
          resolver[NameToString(registry.hostname)][k].v4

\* C16: a query whose service key is not in the self registry and is
\* advertised by one or more peers is answered, when the first such peer in
\* list order has a hostname that resolves, with the A record of that
\* peer's address, whichever later peers advertise the key too.
C16_FirstPeerInListOrder ==
    [][(/\ DnsReplies
        /\ ~InSets(dns.service, dns.self_snapshot)
        /\ PeersWith(registries[dns.node], dns.service) # {})
       => LET hits == PeersWith(registries[dns.node], dns.service)
              first == CHOOSE i \in hits : \A j \in hits : i <= j
              peer == registries[dns.node][first]
          IN Resolves(peer)
             => dns'.reply =
                    ARecord(dns.name,
                        Unwrap(FirstV4(resolver[NameToString(peer.hostname)])))]_vars

\* Two peers that resolve to different addresses advertise the service; the
\* reply carries the address of the one listed first.
C16_Witness ==
    /\ dns.pc = "replied"
    /\ dns.service = <<"a">>
    /\ ~InSets(dns.service, Sets(self_registry[dns.node]))
    /\ Len(registries[dns.node]) = 2
    /\ PeersWith(registries[dns.node], dns.service) = {1, 2}
    /\ Resolves(registries[dns.node][1])
    /\ Resolves(registries[dns.node][2])
    /\ RegistryTryInto(registries[dns.node][1])
           # RegistryTryInto(registries[dns.node][2])
    /\ dns.reply =
           ARecord(dns.name, Unwrap(RegistryTryInto(registries[dns.node][1])))

\* What separates the tokens of a label value: the comma and whitespace.
Separators == {","} \cup WhitespaceTokens

\* The non-empty pieces of a text between separators, left to right.
RECURSIVE Pieces(_)
Pieces(s) ==
    IF s = <<>> THEN <<>>
    ELSE IF Head(s) \in Separators THEN Pieces(Tail(s))
    ELSE LET stops == {i \in 1..Len(s) : s[i] \in Separators}
             end == IF stops = {} THEN Len(s) + 1
                    ELSE CHOOSE i \in stops : \A j \in stops : i <= j
         IN <<SubSeq(s, 1, end - 1)>> \o Pieces(SubSeq(s, end, Len(s)))

\* C17: parse_address returns, in order, the non-empty pieces of the value
\* between commas and whitespace; no token is empty or holds a comma or
\* whitespace, and a value of commas and whitespace only gives no token.
C17_Tokenization ==
    parser.pc = "parsed"
    => /\ parser.tokens = Pieces(parser.value)
       /\ \A i \in 1..Len(parser.tokens) :
             /\ parser.tokens[i] # <<>>
             /\ Range(parser.tokens[i]) \cap Separators = {}
       /\ Range(parser.value) \subseteq Separators => parser.tokens = <<>>

\* An optional numeric port.
NumericPorts == {<<>>, <<":", "80">>}

\* Whether the address under capture ends in one of the given TLD suffixes,
\* optionally followed by a numeric port.
EndsInTldPort(suffixes) ==
    /\ parser.port \in NumericPorts
    /\ \/ parser.suffix \in suffixes
       \/ parser.suffix = <<>>
          /\ \E x \in suffixes : EndsWith(parser.name, x)

\* What the capture of an address of the form [scheme]name.tld[:port] is
\* to be, for the suffixes taken as the public and as the private TLD.
CapturesFor(public, private) ==
    parser.pc = "captured"
    => /\ (parser.suffix \in public /\ parser.port \in NumericPorts)
          => parser.public = Some(parser.name)
       /\ (parser.suffix \in private /\ parser.port \in NumericPorts)
          => parser.private = Some(parser.name)
       /\ ~EndsInTldPort(public \cup private)
          => parser.public = None /\ parser.private = None

StripOneTld(name) ==
    LET bare == TrimEndMatches(name, <<".">>) IN
    IF EndsInTld(bare) THEN DropLast(bare, 2) ELSE bare

\* C19: the service key of a query is its name with the trailing dots
\* removed and then at most one trailing .public or .private removed.
C19_AtMostOneTldStripped ==
    dns.pc # "idle" => dns.service = StripOneTld(dns.name)

\* The service key of the query matched the self registry or a peer.
Matched ==
    \/ InSets(dns.service, dns.self_snapshot)
    \/ PeersWith(registries[dns.node], dns.service) # {}

\* No registry the cascade stops at gives an address: the self hostname does
\* not resolve if the self registry matched, and the hostname of the first
\* peer that advertises the key does not resolve if a peer matched.
NoSynthesis ==
    LET hits == PeersWith(registries[dns.node], dns.service) IN
    /\ InSets(dns.service, dns.self_snapshot)
       => ~Resolves(self_registry[dns.node])
    /\ hits # {}
       => ~Resolves(registries[dns.node][CHOOSE i \in hits : \A j \in hits : i <= j])

\* What the host resolver alone gives for the query name.
UpstreamAnswer ==
    IF dns.name \in DOMAIN resolver /\ FirstV4(resolver[dns.name]).some
    THEN ARecord(dns.name, Unwrap(FirstV4(resolver[dns.name])))
    ELSE NxDomain

\* C20 as claimed: when the key matched a registry whose hostname does not
\* resolve, the reply is not built from the upstream resolution of the query
\* name: with no address from a registry it is NXDOMAIN.
C20_NoUpstreamAfterMatch ==
    [][(DnsReplies /\ Matched /\ NoSynthesis) => dns'.reply = NxDomain]_vars

\* C20, amended: when the key matched a registry whose hostname does not
\* resolve, the cascade goes on, and with no address from a registry the
\* reply is the upstream answer for the original query name.
C20_UpstreamAfterFailedMatch ==
    [][(DnsReplies /\ Matched /\ NoSynthesis) => dns'.reply = UpstreamAnswer]_vars

\* The self registry holds the service, its hostname does not resolve, and
\* the reply carries the address upstream has for the query name.
C20_Witness ==
    /\ dns.pc = "replied"
    /\ dns.name = <<"a", ".", "public", ".">>
    /\ dns.service = <<"a">>
    /\ InSets(dns.service, Sets(self_registry[dns.node]))
    /\ ~Resolves(self_registry[dns.node])
    /\ dns.reply = ARecord(dns.name, 7)

\* The peers that advertise a service and whose hostname resolves, by index.
ResolvingPeersWith(regs, service) ==
    {i \in PeersWith(regs, service) : Resolves(regs[i])}

\* C21: when the first peer that advertises the key has a hostname that
\* does not resolve and a later peer advertises it too with a hostname that
\* resolves, the reply is the A record of that later peer's address.
C21_LaterPeerAfterFailedSynthesis ==
    [][(/\ DnsReplies
        /\ ~InSets(dns.service, dns.self_snapshot)
        /\ ResolvingPeersWith(registries[dns.node], dns.service) # {})
       => LET hits == ResolvingPeersWith(registries[dns.node], dns.service)
              first == CHOOSE i \in hits : \A j \in hits : i <= j
              peer == registries[dns.node][first]
          IN dns'.reply =
                 ARecord(dns.name,
                     Unwrap(FirstV4(resolver[NameToString(peer.hostname)])))]_vars

\* C22: no two entries of a node's peer list have the same hostname string.
C22_PeerUniqueness ==
    \A n \in Nodes :
        \A i \in 1..Len(registries[n]), j \in 1..Len(registries[n]) :
            i # j => NameToString(registries[n][i].hostname)
                         # NameToString(registries[n][j].hostname)

\* The outbound request of node n is at another node whose handler cannot
\* take the lock it needs, because that node's own harvester holds it.
WaitsOnPeerLock(n) ==
    /\ req[n] # NoMsg
    /\ \E m \in Nodes \ {n} :
          /\ Reaches(req[n].to, m)
          /\ IsPut(req[n]) => regLock[m] # "free"
          /\ IsGet(req[n]) => selfLock[m] # "free"

\* C23: no state is reached in which the outbound request of each node
\* waits on a lock the other node holds across its own outbound request.
C23_NoCrossNodeDeadlock == ~(\A n \in Nodes : WaitsOnPeerLock(n))

\* C24: a node that lists itself as a peer gets an answer to the dispatch
\* PUT it sends to itself: while that PUT is in flight, the peer-list lock
\* its handler needs is not held by the dispatch that awaits the answer.
C24_SelfPeerAnswered ==
    \A n \in Nodes :
        (IsPut(req[n]) /\ Reaches(req[n].to, n)) => regLock[n] # "dispatch"

\* C25: a DNS query never waits for a lock that the harvester holds while
\* its outbound request to a peer is unanswered, so that a peer that never
\* answers does not keep a query from its reply.
C25_DnsNotBehindPeerRequest ==
    /\ dns.pc = "self"
       => ~(selfLock[dns.node] # "free" /\ req[dns.node] # NoMsg)
    /\ dns.pc = "registries"
       => ~(regLock[dns.node] # "free" /\ req[dns.node] # NoMsg)

\* C26: after an accepted push for a hostname, with no later write for it,
\* every peer entry of that hostname holds the pushed set.
C26_LastWriterEveryEntry ==
    (/\ cli.pc = "put"
     /\ cli.fresh
     /\ cli.known
     /\ cli.reply = Text("Success")
     /\ FromJson(cli.body).some)
    => \A i \in 1..Len(registries[cli.node]) :
          NameToString(registries[cli.node][i].hostname) = cli.path
          => registries[cli.node][i].public_services = Unwrap(FromJson(cli.body))

\* The moves of the harvester task that belong to the order harvest, pull,
\* push at startup and harvest, push after a start event.
StartupOrder ==
    { <<"flush", "listing">>, <<"listing", "failed">>, <<"listing", "collect">>,
      <<"failed", "collect">>, <<"collect", "collecting">>,
      <<"collect", "dispatch">>, <<"collecting", "dispatch">>,
      <<"dispatch", "dispatch_registries">>,
      <<"dispatch_registries", "dispatching">>,
      <<"dispatch_registries", "watch">>, <<"dispatching", "watch">> }

EventOrder ==
    { <<"watch", "event">>, <<"event", "watch">>, <<"event", "flush">>,
      <<"flush", "listing">>, <<"listing", "failed">>, <<"listing", "dispatch">>,
      <<"failed", "dispatch">>, <<"dispatch", "dispatch_registries">>,
      <<"dispatch_registries", "dispatching">>,
      <<"dispatch_registries", "watch">>, <<"dispatching", "watch">> }

\* C27: at startup the harvester runs harvest, then one pull, then one push;
\* afterwards it waits for events, runs harvest and then push for a start
\* event, one event at a time, and never pulls again.
C27_HarvesterSequencing ==
    [][\A n \in Nodes :
          /\ hpc'[n] # hpc[n]
             => <<hpc[n], hpc'[n]>> \in (IF booted[n] THEN EventOrder
                                                      ELSE StartupOrder)
          /\ (booted'[n] # booted[n]) => (~booted[n] /\ hpc'[n] = "watch")
          /\ (booted[n] /\ req'[n] # req[n]) => ~IsGet(req'[n])
          /\ (IsPut(req'[n]) /\ req'[n] # req[n])
             => hpc'[n] = "dispatching"
          /\ (IsGet(req'[n]) /\ req'[n] # req[n])
             => hpc'[n] = "collecting"]_vars

\* After startup, a start event has led to a harvest that found a service,
\* and the push that follows it is on its way.
C27_Witness ==
    \E n \in Nodes :
        /\ booted[n]
        /\ hpc[n] = "dispatching"
        /\ IsPut(req[n])
        /\ req[n].body.items # <<>>

\* C28: every public and every private service of a self registry is a
\* non-empty string.
C28_ServiceNamesNonEmpty ==
    \A n \in Nodes :
        <<>> \notin self_registry[n].public_services
                        \cup self_registry[n].private_services

\* C29: the private services of every peer registry are the empty set,
\* whatever the startup configuration, the pulls, the accepted pushes and
\* the self-registrations have been.
C29_PeerPrivateSetsEmpty ==
    \A n \in Nodes :
        \A i \in 1..Len(registries[n]) : registries[n][i].private_services = {}

\* A node whose configured peer was pulled from and pushed to, and which a
\* self-registration gave a second peer.
C29_Witness ==
    /\ cli.pc = "put"
    /\ cli.known
    /\ cli.reply = Text("Success")
    /\ FromJson(cli.body) = Some({SvcB})
    /\ LET regs == registries[cli.node] IN
       /\ Len(regs) >= 2
       /\ regs[FindRegistry(regs, cli.path)].public_services = {SvcB}
       /\ \E j \in 1..Len(regs) : regs[j].public_services = {SvcA}
       /\ regs[Len(regs)].url.host = <<"gamma">>
       /\ \A i \in 1..Len(regs) : regs[i].private_services = {}

====
